---- MODULE Spec2Model ----
(***************************************************************************)
(* A model of the pointer-bumping allocator of src/pb-alloc.c: init,       *)
(* malloc, free, calloc and realloc over one mmap'ed heap region, driven   *)
(* by a caller that allocates, writes, resizes and releases blocks the way *)
(* src/memtest.c does.                                                     *)
(*                                                                         *)
(* Scaling.  The machine word (size_t / intptr_t, 64 bits in the build) is *)
(* WordBits wide here and the heap (2 GB in the build) is HeapUnits        *)
(* 16-byte units; every sum the code forms in size_t is taken modulo       *)
(* 2^WordBits and every conversion to intptr_t is two's complement, so the *)
(* arithmetic wraps here exactly where it wraps in the build.  The header  *)
(* keeps its footprint of sizeof (header_s) = 8 bytes and the alignment    *)
(* stays 16.  Memory is an array of bytes; a header is stored in it        *)
(* little-endian, so a block that overlaps another block's header really   *)
(* overwrites the size recorded there.  Memory outside the region reads as  *)
(* zero until something is stored in it; an access to it is undefined      *)
(* behaviour and either faults or goes through, and `strayed` remembers    *)
(* that one went through.                                                  *)
(***************************************************************************)
EXTENDS Integers, Sequences, FiniteSets, TLC

\* ------------------------------------------------------------------ bounds
\* Width of size_t / intptr_t in the model, in bits.
WordBits == 10
\* Size of the reserved region in 16-byte units.
HeapUnits == 4
\* The caller makes at most this many calls (writes included).
MaxCalls == 4
\* The caller writes at most this many bytes into payloads.
MaxWrites == 1

\* ------------------------------------------------------- program constants
\* sizeof (header_s): one size_t.
HEADER_SIZE == 8
\* The alignment of payload addresses ("double word alignment").
ALIGNMENT == 16
\* NULL.
NULL == 0

RECURSIVE Pow2(_)
Pow2(n) == IF n = 0 THEN 1 ELSE 2 * Pow2(n - 1)

\* Number of values of a size_t.
Modulus == Pow2(WordBits)
\* Addresses from Half on have the sign bit set; no user mapping lives there.
Half == Pow2(WordBits - 1)

\* #define HEAP_SIZE GB(2), scaled.
HEAP_SIZE == HeapUnits * ALIGNMENT

\* (void*) -1, what mmap returns when it fails.
MAP_FAILED == Modulus - 1

\* Conversion of a size_t value to intptr_t (two's complement).
ToSigned(u) == IF u >= Half THEN u - Modulus ELSE u

\* Conversion of an intptr_t value to size_t.
ToUnsigned(s) == s % Modulus

\* ----------------------------------------------------------------- inputs
\* Addresses mmap may return for the region (page aligned, region below Half).
StartChoices == {32, 48}

\* Request sizes: small ones, and ones so large that size + header wraps.
SmallSizes == {0, 3, 8, 32}
HugeSizes == {Modulus - 8, Modulus - 24}
Sizes == SmallSizes \cup HugeSizes

\* (nmemb, size) pairs for calloc: an empty one, one longer than a header
\* and its padding, and one whose product does not fit in a size_t.
CallocArgs == {<<0, 8>>, <<4, 4>>, <<2, Half + 4>>}

\* Byte values and payload offsets the caller writes.
WriteVals == {1}
WriteOffs == {0}

VARIABLES
    start_addr,   \* static intptr_t start_addr
    end_addr,     \* static intptr_t end_addr
    free_addr,    \* static intptr_t free_addr (the frontier)
    mem,          \* the non-zero bytes of the address space below Half
    status,       \* "running", "crashed" (memory fault) or "aborted" (ERROR)
    held,         \* the payload addresses the caller holds and has not released
    blocks,       \* every block handed out so far, in order: [hdr, ptr, size]
    exhausted,    \* sizes for which malloc has returned NULL for exhaustion
    nwrites,      \* bytes written by the caller so far
    ncalls,       \* calls made by the caller so far
    strayed,      \* some access outside the region has completed
    last          \* the last call: arguments, result, path, state before it

vars == <<start_addr, end_addr, free_addr, mem, status, held, blocks,
          exhausted, nwrites, ncalls, strayed, last>>


\* The allocator's state as one value: the three globals and the memory.
Heap(s, e, f, m) == [start |-> s, end |-> e, free |-> f, mem |-> m]

\* The result of one call: whether the process survived it, the value it
\* returned, the path it took through the code (and through the malloc it
\* called, if any), the size realloc read from the old header, whether it
\* got away with an access outside the region, and the state it left.
Out(st, r, p, h) ==
    [status |-> st, ret |-> r, path |-> p, via |-> "none", old_size |-> 0,
     stray |-> FALSE, heap |-> h]

\* The result o of an inner malloc, seen as the result of the function that
\* called it and took path p.
Via(o, p) == [o EXCEPT !.via = o.path, !.path = p]

\* ------------------------------------------------------------------ memory
\* How the machine answers an access to the n bytes at address a: inside the
\* region it succeeds; from Half on nothing is mapped and it faults; anywhere
\* else it is undefined behaviour, which either faults or touches whatever
\* happens to be mapped there.
AccessClass(h, a, n) ==
    IF n = 0 THEN "ok"
    ELSE IF a + n > Half THEN "fault"
    ELSE IF h.start <= a /\ a + n <= h.end THEN "ok"
    ELSE "stray"

\* TRUE: the access completes; FALSE: the process dies of a memory fault.
AccessResults(h, a, n) ==
    CASE AccessClass(h, a, n) = "ok" -> {TRUE}
      [] AccessClass(h, a, n) = "fault" -> {FALSE}
      [] OTHER -> {TRUE, FALSE}

\* An access outside the region that completed.
Strayed(h, a, n) == AccessClass(h, a, n) = "stray"

\* The memory is zero where nothing else was stored (mmap hands out zeroed
\* pages); it is kept as the function from the addresses of its non-zero
\* bytes to their values.
ByteAt(m, a) == IF a \in DOMAIN m THEN m[a] ELSE 0

\* m with the bytes at the addresses of `new` replaced by those of `new`.
Store(m, new) ==
    [x \in {y \in DOMAIN m \cup DOMAIN new :
              (IF y \in DOMAIN new THEN new[y] ELSE m[y]) # 0}
       |-> IF x \in DOMAIN new THEN new[x] ELSE m[x]]

\* Byte i of the little-endian representation of v.
RECURSIVE ByteOf(_, _)
ByteOf(v, i) == IF i = 0 THEN v % 256 ELSE ByteOf(v \div 256, i - 1)

\* header_ptr->size = size: the HEADER_SIZE bytes at a receive size.
WriteHeader(m, a, size) ==
    Store(m, [x \in a .. a + HEADER_SIZE - 1 |-> ByteOf(size, x - a)])

\* old_header->size: the size_t stored in the HEADER_SIZE bytes at a.
RECURSIVE DecodeFrom(_, _, _)
DecodeFrom(m, a, i) ==
    IF i = HEADER_SIZE THEN 0
    ELSE (ByteAt(m, a + i) + 256 * DecodeFrom(m, a, i + 1)) % Modulus

ReadHeader(m, a) == DecodeFrom(m, a, 0)

\* calloc without its memset: the block is handed back as malloc left it.
MemsetNothing(m, a, n) == m

\* memset (block_ptr, 0, n).
Memset(m, a, n) == Store(m, [x \in a .. a + n - 1 |-> 0])

\* memcpy copying byte by byte from the lowest address up.
RECURSIVE CopyUp(_, _, _, _, _)
CopyUp(m, dst, src, n, i) ==
    IF i >= n THEN m
    ELSE CopyUp(Store(m, [x \in {dst + i} |-> ByteAt(m, src + i)]),
                dst, src, n, i + 1)

\* memcpy copying byte by byte from the highest address down.
RECURSIVE CopyDown(_, _, _, _)
CopyDown(m, dst, src, n) ==
    IF n = 0 THEN m
    ELSE CopyDown(Store(m, [x \in {dst + n - 1} |-> ByteAt(m, src + n - 1)]),
                  dst, src, n - 1)

\* memcpy (dst, src, n): when the two ranges overlap the behaviour is
\* undefined and the result depends on the direction the library copies in.
Memcpy(m, dst, src, n) == {CopyUp(m, dst, src, n, 0), CopyDown(m, dst, src, n)}

\* -------------------------------------------------------------------- init
\* ERROR (...) of safeio.h: reports the failure and ends the process.
ERROR(h) == Out("aborted", NULL, "abort", h)

\* What mmap can answer: an address for the region, or MAP_FAILED.
MmapResults == StartChoices \cup {MAP_FAILED}

\* init () reserving a region on every call.
FirstUseAlways(h) == TRUE

\* if (start_addr == 0)
FirstUse(h) == h.start = 0

\* init () going on with whatever mmap answered.
ReservationFailedNever(heap) == FALSE

\* if (heap == MAP_FAILED)
ReservationFailed(heap) == heap = MAP_FAILED

\* init (): the region is reserved on the first call only.
InitOutcomes(h) ==
    IF FirstUse(h)
    THEN { IF ReservationFailed(heap)
           THEN ERROR(h)
           ELSE Out("running", NULL, "init",
                    Heap(ToSigned(heap),
                         ToSigned((heap + HEAP_SIZE) % Modulus),
                         ToSigned(heap),
                         h.mem)) : heap \in MmapResults }
    ELSE {Out("running", NULL, "init", h)}

\* ------------------------------------------------------------------ malloc
\* size_t total_size = size + sizeof (header_s)
TotalSize(size) == (size + HEADER_SIZE) % Modulus

\* Padding computed from the frontier alone, the header left out of the sum.
PaddingNoHeader(free) ==
    LET padding == ALIGNMENT - (ToUnsigned(free) % ALIGNMENT)
    IN IF padding = ALIGNMENT THEN 0 ELSE padding

\* The padding as first computed, a 16 left as it is.
PaddingRaw(free) ==
    ALIGNMENT - (((ToUnsigned(free) + HEADER_SIZE) % Modulus) % ALIGNMENT)

\* size_t padding = 16 - ((free_addr + sizeof (header_s)) % 16), 16 becoming 0
Padding(free) ==
    LET padding == ALIGNMENT
                   - (((ToUnsigned(free) + HEADER_SIZE) % Modulus) % ALIGNMENT)
    IN IF padding = ALIGNMENT THEN 0 ELSE padding

\* header_s* header_ptr = (header_s*) (free_addr + padding)
HeaderPtr(free) == (ToUnsigned(free) + Padding(free)) % Modulus

\* void* block_ptr = (void*) (free_addr + padding + sizeof (header_s))
BlockPtr(free) == (ToUnsigned(free) + Padding(free) + HEADER_SIZE) % Modulus

\* intptr_t new_free_addr = free_addr + padding + total_size
NewFreeAddr(free, size) ==
    ToSigned((ToUnsigned(free) + Padding(free) + TotalSize(size)) % Modulus)

\* if (new_free_addr > end_addr) return NULL
HeapExhausted(new_free_addr, end) == new_free_addr > end

\* malloc without its size == 0 test.
IsZeroRequestNever(size) == FALSE

\* if (size == 0) return NULL
IsZeroRequest(size) == size = 0

\* malloc committing the new frontier before it tests it against end_addr.
MallocBodyBumpFirst(h, size) ==
    IF IsZeroRequest(size) THEN {Out("running", NULL, "zero", h)}
    ELSE IF HeapExhausted(NewFreeAddr(h.free, size), h.end)
    THEN {Out("running", NULL, "exhausted",
              [h EXCEPT !.free = NewFreeAddr(h.free, size)])}
    ELSE LET bumped == [h EXCEPT !.free = NewFreeAddr(h.free, size)]
         IN { IF done
              THEN [Out("running", BlockPtr(h.free), "ok",
                        [bumped EXCEPT
                           !.mem = WriteHeader(h.mem, HeaderPtr(h.free), size)])
                    EXCEPT !.stray = Strayed(h, HeaderPtr(h.free), HEADER_SIZE)]
              ELSE Out("crashed", NULL, "crash", bumped)
              : done \in AccessResults(h, HeaderPtr(h.free), HEADER_SIZE) }

\* malloc after init (): the size == 0 test, the bump and the header write.
MallocBody(h, size) ==
    IF IsZeroRequest(size) THEN {Out("running", NULL, "zero", h)}
    ELSE IF HeapExhausted(NewFreeAddr(h.free, size), h.end)
    THEN {Out("running", NULL, "exhausted", h)}
    ELSE LET bumped == [h EXCEPT !.free = NewFreeAddr(h.free, size)]
         IN { IF done
              THEN [Out("running", BlockPtr(h.free), "ok",
                        [bumped EXCEPT
                           !.mem = WriteHeader(h.mem, HeaderPtr(h.free), size)])
                    EXCEPT !.stray = Strayed(h, HeaderPtr(h.free), HEADER_SIZE)]
              ELSE Out("crashed", NULL, "crash", bumped)
              : done \in AccessResults(h, HeaderPtr(h.free), HEADER_SIZE) }

\* void* malloc (size_t size)
MallocOutcomes(h, size) ==
    UNION { IF i.status = "running" THEN MallocBody(i.heap, size) ELSE {i}
            : i \in InitOutcomes(h) }

\* -------------------------------------------------------------------- free
\* A free that gives the block back: the frontier returns to its header.
FreeReclaims(h, ptr) ==
    Out("running", NULL, "free",
        [h EXCEPT !.free = IF ptr = NULL THEN h.free
                           ELSE ToSigned((ptr + Modulus - HEADER_SIZE) % Modulus)])

\* void free (void* ptr): a DEBUG line and nothing else.
FreeOutcome(h, ptr) == Out("running", NULL, "free", h)


\* ------------------------------------------------------------------ calloc
\* size_t block_size = nmemb * size
BlockSize(nmemb, size) == (nmemb * size) % Modulus

\* void* calloc (size_t nmemb, size_t size)
CallocOutcomes(h, nmemb, size) ==
    UNION { IF o.status = "running" /\ o.ret # NULL
            THEN { IF done
                   THEN [Via(o, "cleared") EXCEPT
                           !.heap.mem = Memset(o.heap.mem, o.ret,
                                               BlockSize(nmemb, size)),
                           !.stray = o.stray \/ Strayed(o.heap, o.ret,
                                                        BlockSize(nmemb, size))]
                   ELSE [Via(o, "crash") EXCEPT !.status = "crashed", !.ret = NULL]
                   : done \in AccessResults(o.heap, o.ret, BlockSize(nmemb, size)) }
            ELSE {Via(o, IF o.status = "running" THEN "failed" ELSE o.path)}
            : o \in MallocOutcomes(h, BlockSize(nmemb, size)) }

\* ----------------------------------------------------------------- realloc
\* header_s* old_header = (header_s*) ((intptr_t) ptr - sizeof (header_s))
OldHeader(ptr) == (ptr + Modulus - HEADER_SIZE) % Modulus

\* The in-place test with < for <=.
FitsInPlaceStrict(size, old_size) == size < old_size

\* if (size <= old_size) return ptr
FitsInPlace(size, old_size) == size <= old_size

\* The length realloc passes to memcpy.
CopyLength(old_size, size) == old_size

\* realloc from "void* new_ptr = malloc (size)" on: the new block, the copy.
ReallocGrow(h, ptr, size, old_size) ==
    UNION { IF o.status = "running" /\ o.ret # NULL
            THEN UNION {
                   IF done
                   THEN { [Via(o, "grown") EXCEPT
                             !.heap.mem = m,
                             !.old_size = old_size,
                             !.stray = \/ o.stray
                                       \/ Strayed(o.heap, o.ret,
                                                  CopyLength(old_size, size))
                                       \/ Strayed(o.heap, ptr,
                                                  CopyLength(old_size, size))]
                          : m \in Memcpy(o.heap.mem, o.ret, ptr,
                                         CopyLength(old_size, size)) }
                   ELSE { [Via(o, "crash") EXCEPT !.status = "crashed",
                                                  !.ret = NULL,
                                                  !.old_size = old_size] }
                   : done \in { a /\ b :
                        a \in AccessResults(o.heap, o.ret,
                                            CopyLength(old_size, size)),
                        b \in AccessResults(o.heap, ptr,
                                            CopyLength(old_size, size)) } }
            ELSE { [Via(o, IF o.status = "running" THEN "grow_failed" ELSE o.path)
                      EXCEPT !.old_size = old_size] }
            : o \in MallocOutcomes(h, size) }

\* realloc recording the new size in the old header before it allocates the
\* new block.
ReallocHeaderFirst(h, ptr, size) ==
    IF ptr = NULL THEN { Via(o, IF o.status = "running" THEN "fresh" ELSE o.path)
                         : o \in MallocOutcomes(h, size) }
    ELSE IF size = 0 THEN { Via(FreeOutcome(h, ptr), "released") }
    ELSE UNION {
           IF done
           THEN IF FitsInPlace(size, ReadHeader(h.mem, OldHeader(ptr)))
                THEN { [Out("running", ptr, "same", h) EXCEPT
                          !.old_size = ReadHeader(h.mem, OldHeader(ptr))] }
                ELSE ReallocGrow(
                       [h EXCEPT !.mem = WriteHeader(h.mem, OldHeader(ptr), size)],
                       ptr, size, ReadHeader(h.mem, OldHeader(ptr)))
           ELSE { Out("crashed", NULL, "crash", h) }
           : done \in AccessResults(h, OldHeader(ptr), HEADER_SIZE) }

\* realloc never taking its ptr == NULL branch.
PtrIsNullNever(ptr) == FALSE

\* if (ptr == NULL)
PtrIsNull(ptr) == ptr = NULL

\* realloc never taking its size == 0 branch.
IsZeroResizeNever(size) == FALSE

\* if (size == 0), in realloc
IsZeroResize(size) == size = 0

\* void* realloc (void* ptr, size_t size)
ReallocOutcomes(h, ptr, size) ==
    IF PtrIsNull(ptr) THEN { Via(o, IF o.status = "running" THEN "fresh" ELSE o.path)
                         : o \in MallocOutcomes(h, size) }
    ELSE IF IsZeroResize(size) THEN { Via(FreeOutcome(h, ptr), "released") }
    ELSE UNION {
           IF done
           THEN { [o EXCEPT !.stray = o.stray \/ Strayed(h, OldHeader(ptr),
                                                         HEADER_SIZE)]
                  : o \in IF FitsInPlace(size, ReadHeader(h.mem, OldHeader(ptr)))
                          THEN { [Out("running", ptr, "same", h) EXCEPT
                                    !.old_size = ReadHeader(h.mem, OldHeader(ptr))] }
                          ELSE ReallocGrow(h, ptr, size,
                                           ReadHeader(h.mem, OldHeader(ptr))) }
           ELSE { Out("crashed", NULL, "crash", h) }
           : done \in AccessResults(h, OldHeader(ptr), HEADER_SIZE) }

\* ------------------------------------------------------------- the process
\* The allocator's state now.
Cur == Heap(start_addr, end_addr, free_addr, mem)

\* The record of a call: what was asked, what came back, the state before.
Call(op, ptr, nmemb, size, o) ==
    [op |-> op, ptr |-> ptr, nmemb |-> nmemb, size |-> size,
     ret |-> o.ret, path |-> o.path, via |-> o.via, old_size |-> o.old_size,
     pre |-> Cur]

\* The block an inner malloc of `size` bytes just handed out at o.ret.
Block(o, size) == [hdr |-> OldHeader(o.ret), ptr |-> o.ret, size |-> size]

\* A call leaves the allocator in the state of its outcome o.
Leave(o) ==
    /\ start_addr' = o.heap.start
    /\ end_addr' = o.heap.end
    /\ free_addr' = o.heap.free
    /\ mem' = o.heap.mem
    /\ status' = o.status
    /\ strayed' = (strayed \/ o.stray)

\* One more call of the caller's bounded run.
Count ==
    /\ status = "running"
    /\ ncalls < MaxCalls
    /\ ncalls' = ncalls + 1

Init ==
    /\ start_addr = 0
    /\ end_addr = 0
    /\ free_addr = 0
    /\ mem = [a \in {} |-> 0]
    /\ status = "running"
    /\ held = {}
    /\ blocks = <<>>
    /\ exhausted = {}
    /\ nwrites = 0
    /\ ncalls = 0
    /\ strayed = FALSE
    /\ last = Call("none", NULL, 0, 0,
                   Out("running", NULL, "none",
                       Heap(0, 0, 0, [a \in {} |-> 0])))

\* x = malloc (size)
Malloc(size) ==
    /\ Count
    /\ \E o \in MallocOutcomes(Cur, size) :
         /\ Leave(o)
         /\ last' = Call("malloc", NULL, 0, size, o)
         /\ held' = IF o.ret # NULL THEN held \cup {o.ret} ELSE held
         /\ blocks' = IF o.ret # NULL THEN Append(blocks, Block(o, size))
                      ELSE blocks
         /\ exhausted' = IF o.path = "exhausted" THEN exhausted \cup {size}
                         ELSE exhausted
    /\ UNCHANGED nwrites

\* x = calloc (nmemb, size)
Calloc(nmemb, size) ==
    /\ Count
    /\ \E o \in CallocOutcomes(Cur, nmemb, size) :
         /\ Leave(o)
         /\ last' = Call("calloc", NULL, nmemb, size, o)
         /\ held' = IF o.ret # NULL THEN held \cup {o.ret} ELSE held
         /\ blocks' = IF o.ret # NULL
                      THEN Append(blocks, Block(o, BlockSize(nmemb, size)))
                      ELSE blocks
    /\ UNCHANGED <<exhausted, nwrites>>

\* y = realloc (ptr, size), ptr being NULL or a block the caller holds
Realloc(ptr, size) ==
    /\ Count
    /\ \E o \in ReallocOutcomes(Cur, ptr, size) :
         /\ Leave(o)
         /\ last' = Call("realloc", ptr, 0, size, o)
         /\ held' = CASE o.path = "released" -> held \ {ptr}
                      [] o.path = "grown" -> (held \ {ptr}) \cup {o.ret}
                      [] o.path = "fresh" /\ o.ret # NULL -> held \cup {o.ret}
                      [] OTHER -> held
         /\ blocks' = IF o.ret # NULL /\ o.via = "ok"
                      THEN Append(blocks, Block(o, size)) ELSE blocks
    /\ UNCHANGED <<exhausted, nwrites>>

\* free (ptr), ptr being NULL or a block the caller holds
Free(ptr) ==
    /\ Count
    /\ Leave(FreeOutcome(Cur, ptr))
    /\ last' = Call("free", ptr, 0, 0, FreeOutcome(Cur, ptr))
    /\ held' = held \ {ptr}
    /\ UNCHANGED <<blocks, exhausted, nwrites>>

\* *(ptr + off) = v: the caller fills a byte of a block it holds (every
\* block has at least one byte, and the offsets written stay within it)
Write(ptr, off, v) ==
    /\ Count
    /\ nwrites < MaxWrites
    /\ \E done \in AccessResults(Cur, ptr + off, 1) :
         /\ Leave(IF done
                  THEN [Out("running", NULL, "written",
                            [Cur EXCEPT
                               !.mem = Store(mem, [x \in {ptr + off} |-> v])])
                        EXCEPT !.stray = Strayed(Cur, ptr + off, 1)]
                  ELSE Out("crashed", NULL, "crash", Cur))
         /\ last' = Call("write", ptr, 0, off,
                         Out("running", NULL,
                             IF done THEN "written" ELSE "crash", Cur))
    /\ nwrites' = nwrites + 1
    /\ UNCHANGED <<held, blocks, exhausted>>

Next ==
    \/ \E size \in Sizes : Malloc(size)
    \/ \E a \in CallocArgs : Calloc(a[1], a[2])
    \/ \E ptr \in held \cup {NULL}, size \in Sizes : Realloc(ptr, size)
    \/ \E ptr \in held \cup {NULL} : Free(ptr)
    \/ \E ptr \in held, off \in WriteOffs, v \in WriteVals :
         Write(ptr, off, v)

Spec == Init /\ [][Next]_vars

\* The process that only calls malloc, with every size from 1 to 16, so that
\* the frontier takes every residue modulo 16.
PadSizes == 1 .. ALIGNMENT

\* The number of calls that process makes.
MaxPadCalls == 2

PadNext == \E size \in PadSizes : ncalls < MaxPadCalls /\ Malloc(size)

PadSpec == Init /\ [][PadNext]_vars

\* -------------------------------------------------------------- properties
\* Every access so far stayed inside the reserved region: the run has met no
\* undefined behaviour of the memory.
Defined == ~strayed

\* The smaller of two numbers.
Min(a, b) == IF a <= b THEN a ELSE b

\* The last call returned to the caller (the process did not die in it).
Returned == status = "running" /\ last.op \in {"malloc", "calloc", "realloc"}

\* The last call carved a new block out of the region.
NewBlock == (last.op = "malloc" /\ last.path = "ok") \/ last.via = "ok"

\* The heap was initialized before the last call.
WasInitialized == last.pre.start # 0

\* The frontier the last call started from: the one it found, or the start
\* of the region it reserved itself.
FrontierBefore == IF WasInitialized THEN last.pre.free ELSE start_addr

\* The size recorded in the header of last.ptr before the last call.
RecordedBefore == ReadHeader(last.pre.mem, OldHeader(last.ptr))

\* One past the last byte of block b, as a true integer.
ExtentEnd(b) == b.ptr + b.size

\* C1: every non-null pointer returned by malloc, calloc or realloc, and so
\* the payload address of every block ever handed out, is a multiple of 16.
C1_ReturnedAligned ==
    /\ (Returned /\ last.ret # NULL) => last.ret % ALIGNMENT = 0
    /\ \A i \in 1 .. Len(blocks) : blocks[i].ptr % ALIGNMENT = 0

\* C1 witness: a growing realloc returned a block from a frontier that
\* needed a padding other than 0 and 8.
C1_Witness ==
    /\ Returned /\ last.op = "realloc" /\ last.path = "grown"
    /\ Padding(last.pre.free) \notin {0, 8}
    /\ last.ret % ALIGNMENT = 0

\* C2: the extents [header, payload + recorded size) of any two blocks ever
\* handed out are disjoint.
C2_BlocksDisjoint ==
    Defined =>
        \A i, j \in 1 .. Len(blocks) :
            i < j => \/ ExtentEnd(blocks[i]) <= blocks[j].hdr
                     \/ ExtentEnd(blocks[j]) <= blocks[i].hdr

\* C3: once the heap is initialized, start <= frontier <= end.
C3_FrontierInRegion ==
    (Defined /\ status = "running" /\ start_addr # 0)
        => (start_addr <= free_addr /\ free_addr <= end_addr)

\* C4: no call moves the frontier backward, and a call moves it forward
\* exactly when it carved out a new block.
C4_FrontierMonotone ==
    (Defined /\ Returned /\ WasInitialized)
        => /\ free_addr >= last.pre.free
           /\ (free_addr > last.pre.free) <=> NewBlock

\* C5: a malloc that fails for exhaustion returns NULL and leaves the
\* frontier and every byte of memory (headers and payloads) as they were.
C5_ExhaustionNoEffect ==
    (Returned /\ last.op = "malloc" /\ last.size # 0
       /\ HeapExhausted(NewFreeAddr(FrontierBefore, last.size), end_addr))
        => /\ last.ret = NULL
           /\ free_addr = FrontierBefore
           /\ mem = last.pre.mem
           /\ WasInitialized => (start_addr = last.pre.start
                                 /\ end_addr = last.pre.end)

\* C5 witness: malloc failed for exhaustion on a heap that holds a block.
C5_Witness ==
    /\ Returned /\ last.op = "malloc" /\ last.path = "exhausted"
    /\ WasInitialized /\ Len(blocks) > 0 /\ DOMAIN mem # {}
    /\ last.ret = NULL /\ free_addr = last.pre.free

\* C6: once malloc (s) has failed for exhaustion every later malloc (s)
\* returns NULL, and with the frontier at end every malloc of a positive
\* size returns NULL and leaves the frontier where it is.
C6_ExhaustionStable ==
    /\ (Defined /\ Returned /\ last.op = "malloc" /\ last.size \in exhausted)
          => last.ret = NULL
    /\ (Defined /\ Returned /\ last.op = "malloc" /\ last.size # 0
          /\ WasInitialized
          /\ last.pre.free = last.pre.end)
          => (last.ret = NULL /\ free_addr = last.pre.free)

\* C7: malloc (0) returns NULL in every heap state, moves no frontier and
\* writes no header.
C7_ZeroReturnsNull ==
    (Returned /\ last.op = "malloc" /\ last.size = 0)
        => /\ last.ret = NULL
           /\ free_addr = FrontierBefore
           /\ mem = last.pre.mem

\* C7 witness: malloc (0) answered NULL on a heap that holds a block and has
\* its frontier at end.
C7_Witness ==
    /\ Returned /\ last.op = "malloc" /\ last.size = 0 /\ last.ret = NULL
    /\ Len(blocks) > 0 /\ free_addr = end_addr /\ last.pre.free = free_addr

\* C8: realloc (ptr, s) with ptr non-null and 0 < s <= the recorded size
\* returns ptr and leaves the frontier, the region and every byte alone.
C8_ShrinkInPlace ==
    (Returned /\ last.op = "realloc" /\ last.ptr # NULL
       /\ last.size > 0 /\ last.size <= RecordedBefore)
        => /\ last.ret = last.ptr
           /\ free_addr = last.pre.free
           /\ start_addr = last.pre.start /\ end_addr = last.pre.end
           /\ mem = last.pre.mem

\* C8 witness: realloc to exactly the recorded size returned the block.
C8_Witness ==
    /\ Returned /\ last.op = "realloc" /\ last.ptr # NULL
    /\ last.size > 0 /\ last.size = RecordedBefore
    /\ last.ret = last.ptr /\ DOMAIN mem # {}

\* C9: a growing realloc that succeeds returns a pointer other than ptr, to
\* a block whose header records the new size and whose first old-size bytes
\* are the old payload's; a realloc in place returns the old bytes too.
C9_GrowCopies ==
    (Defined /\ Returned /\ last.op = "realloc" /\ last.ptr # NULL
       /\ last.ret # NULL)
        => /\ last.size > RecordedBefore
                => /\ last.ret # last.ptr
                   /\ ReadHeader(mem, OldHeader(last.ret)) = last.size
           /\ \A i \in 0 .. Min(RecordedBefore, last.size) - 1 :
                ByteAt(mem, last.ret + i) = ByteAt(last.pre.mem, last.ptr + i)

\* C10: a growing realloc whose malloc fails for exhaustion returns NULL and
\* leaves the frontier and every byte alone, so that the old header still
\* records the old size and a realloc to any size up to it returns ptr.
C10_FailedGrowKeepsBlock ==
    (Returned /\ last.op = "realloc" /\ last.ptr # NULL
       /\ last.size > RecordedBefore
       /\ HeapExhausted(NewFreeAddr(last.pre.free, last.size), last.pre.end))
        => /\ last.ret = NULL
           /\ free_addr = last.pre.free
           /\ mem = last.pre.mem
           /\ ReadHeader(mem, OldHeader(last.ptr)) = RecordedBefore
           /\ \A s \in 1 .. RecordedBefore :
                    \A o \in ReallocOutcomes(Cur, last.ptr, s) :
                        o.status = "running" => (o.ret = last.ptr /\ o.heap = Cur)

\* C10 witness: a growing realloc of a block that holds a written byte
\* failed for exhaustion.
C10_Witness ==
    /\ Returned /\ last.op = "realloc" /\ last.path = "grow_failed"
    /\ last.via = "exhausted" /\ last.ret = NULL
    /\ last.old_size > 0 /\ ByteAt(mem, last.ptr) # 0

\* The size calloc asked malloc for in the last call: nmemb * size as the
\* code forms it, in size_t.
CallocSize == BlockSize(last.nmemb, last.size)

\* C11: a calloc that succeeds returns a block whose header records
\* nmemb * size (the size_t product) and whose nmemb * size payload bytes are
\* all zero, whatever the bytes held before; a calloc that fails returns NULL
\* and writes no memory; a product that wraps is not refused, the call fails
\* only when the wrapped product is 0 or does not fit in the heap.
C11_CallocZeroed ==
    (Returned /\ last.op = "calloc")
        => /\ last.ret # NULL
                => /\ ReadHeader(mem, OldHeader(last.ret)) = CallocSize
                   /\ \A i \in 0 .. CallocSize - 1 : ByteAt(mem, last.ret + i) = 0
           /\ last.ret = NULL
                => /\ mem = last.pre.mem
                   /\ free_addr = FrontierBefore
                   /\ \/ CallocSize = 0
                      \/ HeapExhausted(NewFreeAddr(FrontierBefore, CallocSize),
                                       end_addr)

\* C11 witness: calloc returned a block lying over a byte the caller had
\* written, and the byte reads zero now.
C11_Witness ==
    /\ Returned /\ last.op = "calloc" /\ last.ret # NULL /\ CallocSize > 0
    /\ ByteAt(last.pre.mem, last.ret) # 0
    /\ ByteAt(mem, last.ret) = 0

\* What the caller of an allocating operation gets to see of an outcome: the
\* returned pointer, whether the process goes on, and the allocator's state.
Seen(o) == [ret |-> o.ret, status |-> o.status, heap |-> o.heap]

Left == [ret |-> last.ret, status |-> status, heap |-> Cur]

\* C13: realloc (NULL, size) is malloc (size), for every size, size 0 and
\* sizes the heap cannot hold included, and every state of the heap: what a
\* realloc (NULL, size) left (returned pointer or NULL, frontier, headers) is
\* what malloc (size) leaves from the same state, and what a malloc (size)
\* left is what realloc (NULL, size) leaves from the same state.
C13_ReallocNullIsMalloc ==
    /\ (last.op = "realloc" /\ last.ptr = NULL)
           => Left \in { Seen(o) : o \in MallocOutcomes(last.pre, last.size) }
    /\ last.op = "malloc"
           => Left \in { Seen(o) : o \in ReallocOutcomes(last.pre, NULL, last.size) }

\* C13 witness: realloc (NULL, size) on a heap already in use handed out a
\* new block.
C13_Witness ==
    /\ Returned /\ last.op = "realloc" /\ last.ptr = NULL
    /\ last.ret # NULL /\ NewBlock
    /\ WasInitialized /\ last.pre.free > last.pre.start

\* C14: realloc (ptr, 0) with ptr not NULL returns NULL and does what
\* free (ptr) does: frontier, headers and payload bytes stay as they were
\* and no block is allocated.
C14_ReallocZeroIsFree ==
    (last.op = "realloc" /\ last.ptr # NULL /\ last.size = 0)
        => /\ status = "running"
           /\ last.ret = NULL
           /\ last.ret = FreeOutcome(last.pre, last.ptr).ret
           /\ Cur = FreeOutcome(last.pre, last.ptr).heap
           /\ Cur = last.pre
           /\ ~NewBlock

\* C14 witness: realloc (ptr, 0) was called on a block the caller held.
C14_Witness ==
    /\ last.op = "realloc" /\ last.ptr # NULL /\ last.size = 0
    /\ last.path = "released"
    /\ \E i \in 1 .. Len(blocks) : blocks[i].ptr = last.ptr

\* The size recorded for the block most recently handed out at payload
\* address p: the size its malloc or calloc was asked for, or the size of the
\* realloc that grew into it.
SizeOf(p) ==
    LET made == { i \in 1 .. Len(blocks) : blocks[i].ptr = p }
    IN  blocks[CHOOSE i \in made : \A j \in made : j <= i].size

\* C15: for every payload pointer p the caller holds, the header at
\* p - sizeof (header_s) records the size the block was created with (by
\* malloc, calloc or a growing realloc); a realloc to a size no larger
\* leaves it as it is, and no operation on another block changes it.
C15_HeaderRecordsSize ==
    (Defined /\ status = "running")
        => \A p \in held : ReadHeader(mem, OldHeader(p)) = SizeOf(p)

\* The size the last call asked malloc for.
AskedSize == IF last.op = "calloc" THEN CallocSize ELSE last.size

\* C16: the heap is set up exactly once.  The first malloc, calloc or
\* realloc reserves the region and sets the frontier to its start and the end
\* to start + HEAP_SIZE before the frontier is used; init () is a no-op in
\* every call after that: start and end stay as they are, and the frontier is
\* where the call found it or one block further, never back at the start.
C16_InitOnce ==
    status # "aborted"
        => /\ start_addr = 0
                => end_addr = 0 /\ free_addr = 0 /\ blocks = << >>
           /\ start_addr # 0
                => /\ start_addr \in StartChoices
                   /\ end_addr = start_addr + HEAP_SIZE
                   /\ \A o \in InitOutcomes(Cur) :
                          o.status = "running" /\ o.heap = Cur
           /\ (Returned /\ ~WasInitialized) => start_addr # 0
           /\ WasInitialized
                => start_addr = last.pre.start /\ end_addr = last.pre.end
           /\ Returned
                => free_addr \in { FrontierBefore,
                                   NewFreeAddr(FrontierBefore, AskedSize) }

\* C16 witness: a call on a heap set up earlier, with the frontier already
\* past the start, carved a block and moved the frontier further.
C16_Witness ==
    /\ Returned /\ WasInitialized /\ NewBlock
    /\ last.pre.free > last.pre.start
    /\ free_addr > last.pre.free
    /\ start_addr = last.pre.start

\* C17: when the reservation fails the process is ended by ERROR: start, end
\* and frontier are never set from what mmap answered (they stay 0, and are
\* never the address MAP_FAILED), no pointer has been or is handed out, and
\* no operation runs afterwards.
C17_FailedReservationAborts ==
    /\ start_addr # ToSigned(MAP_FAILED)
    /\ start_addr \in {0} \cup StartChoices
    /\ status = "aborted"
           => /\ start_addr = 0 /\ end_addr = 0 /\ free_addr = 0
              /\ last.op \in {"malloc", "calloc", "realloc"}
              /\ last.ret = NULL
              /\ ~WasInitialized
              /\ blocks = << >> /\ held = {}
              /\ ~ENABLED Next

\* C17 witness: the first allocating call found mmap failing and the process
\* was ended.
C17_Witness ==
    status = "aborted" /\ last.path = "abort" /\ start_addr = 0

\* Every value of an intptr_t.
Words == (0 - Half) .. (Half - 1)

\* k is the least non-negative number that brings frontier f, plus the
\* header, to a multiple of 16.
LeastPadding(f, k) ==
    /\ k >= 0
    /\ (f + k + HEADER_SIZE) % ALIGNMENT = 0
    /\ \A j \in 0 .. k - 1 : (f + j + HEADER_SIZE) % ALIGNMENT # 0

\* C18: for every value of the frontier the padding is in 0 .. 15 and is the
\* least k >= 0 with (frontier + k + sizeof (header_s)) mod 16 = 0; a malloc
\* that succeeds writes its header at frontier + padding, and nowhere else,
\* and returns frontier + padding + sizeof (header_s).
C18_PaddingLeast ==
    /\ ncalls = 0
           => \A f \in Words :
                  Padding(f) \in 0 .. ALIGNMENT - 1 /\ LeastPadding(f, Padding(f))
    /\ (Returned /\ last.op = "malloc" /\ last.ret # NULL)
           => LET f == FrontierBefore
                  k == last.ret - HEADER_SIZE - f
              IN  /\ k \in 0 .. ALIGNMENT - 1
                  /\ LeastPadding(f, k)
                  /\ last.ret = f + k + HEADER_SIZE
                  /\ blocks[Len(blocks)].hdr = f + k
                  /\ ReadHeader(mem, f + k) = last.size
                  /\ \A a \in 0 .. Modulus - 1 :
                         ByteAt(mem, a) # ByteAt(last.pre.mem, a)
                             => a \in f + k .. f + k + HEADER_SIZE - 1

\* C18 witness: a malloc that found the frontier, with the header, 15 bytes
\* short of a multiple of 16 padded by 15.
C18_Witness ==
    /\ Returned /\ last.op = "malloc" /\ last.ret # NULL
    /\ WasInitialized
    /\ last.ret - HEADER_SIZE - FrontierBefore = ALIGNMENT - 1

\* C19: for every size >= 1 of a size_t, sizes for which size + header or
\* frontier + padding + header + size does not fit in the word included,
\* malloc (size) succeeds only if frontier + padding + sizeof (header_s) +
\* size, as a sum of integers, is at most end, and then moves the frontier
\* forward by exactly padding + sizeof (header_s) + size; otherwise it
\* returns NULL.
C19_TrueSumBounded ==
    (Defined /\ Returned /\ last.op = "malloc" /\ last.size >= 1)
        => LET sum == FrontierBefore + Padding(FrontierBefore)
                      + HEADER_SIZE + last.size
           IN  /\ last.ret # NULL
                    => /\ sum <= end_addr
                       /\ free_addr = FrontierBefore + Padding(FrontierBefore)
                                      + HEADER_SIZE + last.size
               /\ sum > end_addr => last.ret = NULL

\* C20: every block ever handed out lies inside the reserved region:
\* start <= its header address and payload + recorded size <= frontier <= end;
\* and once a block has been handed out, the frontier is the payload address
\* plus the recorded size of the block allocated last.
C20_BlocksInsideRegion ==
    (Defined /\ status = "running" /\ blocks # << >>)
        => /\ free_addr <= end_addr
           /\ \A i \in 1 .. Len(blocks) :
                  /\ start_addr <= blocks[i].hdr
                  /\ ExtentEnd(blocks[i]) <= free_addr
           /\ free_addr = ExtentEnd(blocks[Len(blocks)])
====
